---------------------------- MODULE Spec2Model ----------------------------
(***************************************************************************)
(* Verification model of the quadtree of src/main.rs (QuadNode) and of the *)
(* main loop that rebuilds, fills and queries it every frame.              *)
(*                                                                         *)
(* Numbers.  The program computes in f32.  A coordinate (a point's x or y, *)
(* a rectangle's origin, a rectangle's right or bottom edge) is modelled   *)
(* as an integer number of grid units, one unit being the spacing of the   *)
(* representable coordinates at the universe's scale.  An extent (w, h) is *)
(* a number of sub-units, Scale sub-units to the unit, because f32 keeps   *)
(* small magnitudes finer than the coordinates they are added to.  Halving *)
(* an extent is exact until it underflows to zero (FHalf); adding an       *)
(* extent to a coordinate rounds to the nearest coordinate, ties to even   *)
(* (FAdd), which is what f32 addition does once the extent is below the    *)
(* spacing of the coordinate.                                              *)
(***************************************************************************)
EXTENDS Integers, Sequences, FiniteSets, TLC

(***************************************************************************)
(* Bounds of the model.                                                    *)
(***************************************************************************)
\* the universe is 2^GridBits by 2^GridBits grid units
GridBits == 3
\* an extent has SubBits bits below the grid unit before it underflows
SubBits == 1
\* number of add calls of one tree lifetime
MaxAdds == 3

RECURSIVE Pow2(_)
Pow2(n) == IF n = 0 THEN 1 ELSE 2 * Pow2(n - 1)

Scale == Pow2(SubBits)
UniverseSize == Pow2(GridBits)

\* capacities a tree is built with (QuadNode.limit)
Limits == {1, 2, 3}

\* the positions handed to add: inside the universe, on split boundaries,
\* coincident by repetition, and outside the universe on every side
Positions ==
  { <<0, 0>>, <<1, 0>>, <<1, 1>>, <<3, 2>>, <<4, 4>>, <<7, 7>>,
    <<UniverseSize, 3>>, <<-1, 0>> }

(***************************************************************************)
(* f32 arithmetic on coordinates and extents.                              *)
(***************************************************************************)
\* self.region.w / 2.0
FHalf(d) == d \div 2

\* coordinate + extent, rounded to the nearest coordinate, ties to even
FAdd(a, d) ==
  LET n == a * Scale + d
      q == n \div Scale
      r == n % Scale
  IN  IF 2 * r < Scale THEN q
      ELSE IF 2 * r > Scale THEN q + 1
      ELSE IF q % 2 = 0 THEN q ELSE q + 1

Max(a, b) == IF a >= b THEN a ELSE b
Min(a, b) == IF a <= b THEN a ELSE b

(***************************************************************************)
(* Rect (macroquad): origin x, y in grid units, extents w, h in sub-units. *)
(***************************************************************************)
Rect(x, y, w, h) == [x |-> x, y |-> y, w |-> w, h |-> h]

right(r) == FAdd(r.x, r.w)
bottom(r) == FAdd(r.y, r.h)

\* Rect::contains(point): x0 <= px < x0 + w and y0 <= py < y0 + h
contains(r, p) ==
  /\ p[1] >= r.x
  /\ p[1] < right(r)
  /\ p[2] < bottom(r)
  /\ p[2] >= r.y

\* Rect::intersect(other).is_some(): the overlap has positive area
intersect(a, b) ==
  LET l == Max(a.x, b.x)
      t == Max(a.y, b.y)
      rr == Min(right(a), right(b))
      bb == Min(bottom(a), bottom(b))
  IN  l < rr /\ t < bb

(***************************************************************************)
(* QuadNode.                                                               *)
(***************************************************************************)
\* QuadNode::new(region, limit)
new(region, limit) ==
  [limit |-> limit, region |-> region, points |-> <<>>, regions |-> <<>>]

\* QuadNode::make_regions
make_regions(self) ==
  LET x == self.region.x
      y == self.region.y
      hw == FHalf(self.region.w)
      hh == FHalf(self.region.h)
  IN  << new(Rect(x, y, hw, hh), self.limit),
         new(Rect(FAdd(x, hw), y, hw, hh), self.limit),
         new(Rect(x, FAdd(y, hh), hw, hh), self.limit),
         new(Rect(FAdd(x, hw), FAdd(y, hh), hw, hh), self.limit) >>

\* QuadNode::in_region
in_region(self, query_area) == intersect(self.region, query_area)

RECURSIVE query(_, _)
RECURSIVE QueryFrom(_, _, _)
\* variant of QueryFrom: a leaf's points are filtered against query_area
QueryFrom_PerPoint(self, query_area, k) ==
  IF k > Len(self.regions) THEN <<>>
  ELSE LET node == self.regions[k]
           got == IF in_region(node, query_area)
                  THEN IF Len(node.regions) > 0
                       THEN query(node, query_area)
                       ELSE SelectSeq(node.points,
                                      LAMBDA pt : contains(query_area, pt[2]))
                  ELSE <<>>
       IN  got \o QueryFrom(self, query_area, k + 1)

\* the loop of query over self.regions[k..]
QueryFrom(self, query_area, k) ==
  IF k > Len(self.regions) THEN <<>>
  ELSE LET node == self.regions[k]
           got == IF in_region(node, query_area)
                  THEN IF Len(node.regions) > 0
                       THEN query(node, query_area)
                       ELSE node.points
                  ELSE <<>>
       IN  got \o QueryFrom(self, query_area, k + 1)

\* variant of query: a node without children answers with its own points
query_OwnPoints(self, query_area) ==
  IF Len(self.regions) = 0 THEN self.points
  ELSE QueryFrom(self, query_area, 1)

\* QuadNode::query
query(self, query_area) == QueryFrom(self, query_area, 1)

RECURSIVE add(_, _, _)
RECURSIVE split(_)
RECURSIVE SplitPoints(_, _, _)

\* variant of add: no early return for a position outside self.region
add_NoBoundsCheck(self, id, position) ==
  IF Len(self.regions) = 0
  THEN IF Len(self.points) = self.limit
       THEN add(split(self), id, position)
       ELSE [self EXCEPT !.points = Append(@, <<id, position>>)]
  ELSE [self EXCEPT
          !.regions = [i \in 1..Len(@) |-> add(@[i], id, position)]]

\* variant of add: a full leaf accepts the point instead of splitting
add_PastCapacity(self, id, position) ==
  IF ~contains(self.region, position) THEN self
  ELSE IF Len(self.regions) = 0
       THEN [self EXCEPT !.points = Append(@, <<id, position>>)]
       ELSE [self EXCEPT
               !.regions = [i \in 1..Len(@) |-> add(@[i], id, position)]]

\* QuadNode::add
add(self, id, position) ==
  IF ~contains(self.region, position) THEN self
  ELSE IF Len(self.regions) = 0
       THEN IF Len(self.points) = self.limit
            THEN add(split(self), id, position)
            ELSE [self EXCEPT !.points = Append(@, <<id, position>>)]
       ELSE [self EXCEPT
               !.regions = [i \in 1..Len(@) |-> add(@[i], id, position)]]

\* the loop of split over self.points[k..]: each point is offered to every
\* child when self.region contains it
SplitPoints(self, regions, k) ==
  IF k > Len(self.points) THEN regions
  ELSE LET id == self.points[k][1]
           position == self.points[k][2]
           offered == [i \in 1..Len(regions) |->
                         IF contains(self.region, position)
                         THEN add(regions[i], id, position)
                         ELSE regions[i]]
       IN  SplitPoints(self, offered, k + 1)

\* variant of split: the node keeps its own points
split_KeepPoints(self) ==
  [self EXCEPT !.regions = SplitPoints(self, make_regions(self), 1)]

\* variant of split: the points are cleared without being re-inserted
split_NoReinsert(self) ==
  [self EXCEPT !.regions = make_regions(self), !.points = <<>>]

\* QuadNode::split
split(self) ==
  [self EXCEPT !.regions = SplitPoints(self, make_regions(self), 1),
               !.points = <<>>]

\* the universe of main: Rect::new(0.0, 0.0, WINDOW_WIDTH, WINDOW_HEIGHT)
qregion == Rect(0, 0, UniverseSize * Scale, UniverseSize * Scale)

\* main: a new tree whose root is given its four children at once
\* (qtree.regions = qtree.make_regions())
Expanded(limit) ==
  LET t == new(qregion, limit) IN [t EXCEPT !.regions = make_regions(t)]

(***************************************************************************)
(* Observers of a tree, used to state the properties.                      *)
(***************************************************************************)
\* the ids of a query result (main: .iter().map(|p| p.0))
Ids(ps) == { ps[i][1] : i \in 1..Len(ps) }

Occurrences(ps, pt) == Cardinality({ i \in 1..Len(ps) : ps[i] = pt })

RECURSIVE SumOver(_, _)
SumOver(f, k) == IF k = 0 THEN 0 ELSE f[k] + SumOver(f, k - 1)

\* how many times leaves hold the pair pt
RECURSIVE HeldByLeaves(_, _)
HeldByLeaves(node, pt) ==
  IF Len(node.regions) = 0 THEN Occurrences(node.points, pt)
  ELSE SumOver([i \in 1..Len(node.regions) |->
                  HeldByLeaves(node.regions[i], pt)], Len(node.regions))

\* how many points all nodes together hold at the coordinates pos
RECURSIVE StoredAt(_, _)
StoredAt(node, pos) ==
  Cardinality({ i \in 1..Len(node.points) : node.points[i][2] = pos })
  + SumOver([i \in 1..Len(node.regions) |->
               StoredAt(node.regions[i], pos)], Len(node.regions))

\* how many points all nodes together hold
RECURSIVE Stored(_)
Stored(node) ==
  Len(node.points)
  + SumOver([i \in 1..Len(node.regions) |-> Stored(node.regions[i])],
            Len(node.regions))

\* how many nodes have children
RECURSIVE NumInternal(_)
NumInternal(node) ==
  IF Len(node.regions) = 0 THEN 0
  ELSE 1 + SumOver([i \in 1..Len(node.regions) |->
                      NumInternal(node.regions[i])], Len(node.regions))

\* the node a path of child indices leads to
RECURSIVE NodeAt(_, _)
NodeAt(node, path) ==
  IF path = <<>> THEN node ELSE NodeAt(node.regions[Head(path)], Tail(path))

\* the paths of the leaves an add of position arrives at
RECURSIVE Reached(_, _, _)
Reached(node, position, path) ==
  IF ~contains(node.region, position) THEN {}
  ELSE IF Len(node.regions) = 0 THEN {path}
  ELSE UNION { Reached(node.regions[i], position, Append(path, i)) :
                 i \in 1..Len(node.regions) }

EmptyLeaf(node) == Len(node.regions) = 0 /\ node.points = <<>>

InUniverse(position) == contains(qregion, position)

\* the rectangles the tree is asked about (extents in sub-units)
QueryRects ==
  { qregion,
    Rect(0, 0, 4 * Scale, 4 * Scale),
    Rect(4, 4, 4 * Scale, 4 * Scale),
    Rect(0, 0, 2 * Scale, 1 * Scale),
    Rect(1, 0, 1 * Scale, 2 * Scale),
    Rect(3, 1, 2 * Scale, 2 * Scale),
    Rect(-2, -2, 3 * Scale, 3 * Scale),
    Rect(6, 6, 4 * Scale, 4 * Scale),
    Rect(2, 2, 0, 0) }

(***************************************************************************)
(* Bullets, player and try_hit of the demo.                                *)
(***************************************************************************)
\* capacity main builds its trees with; the source's value is 10, scaled down
\* with the number of bullets so that main's trees split
QUADTREE_REGION_LIMIT == 1
\* bullets per spawn; the source's value is 100
BULLET_SPAWN_ITER == 1
\* most bullets in the scene at once
MaxBullets == 2

WINDOW_HEIGHT == UniverseSize

\* radius of the player's circle (a tenth of the window width in the source)
PlayerRadius == UniverseSize \div 4
\* radius of a bullet's circle, in sub-units
BulletRadius == Scale \div 2

\* the x coordinates bullets are spawned at (rand::gen_range(0, WINDOW_WIDTH))
SpawnXs == { 1, UniverseSize - 3 }

\* where the pointer puts the player
MousePositions ==
  { <<1, 1>>, <<UniverseSize \div 2, UniverseSize \div 2>>,
    <<UniverseSize - 2, 0>> }

\* Bullet: entity.position, which its bounding circle follows
Bullet(position) == [position |-> position]

\* Circle::overlaps of the bullet's and the player's bounding circles
overlaps(bullet, player_position) ==
  LET dx == bullet.position[1] - player_position[1]
      dy == bullet.position[2] - player_position[2]
      reach == PlayerRadius * Scale + BulletRadius
  IN  (dx * dx + dy * dy) * Scale * Scale < reach * reach

\* try_hit may index bullets only below its length
IndexesInBounds(bullets, possible_ids) ==
  \A k \in 1..Len(possible_ids) : possible_ids[k] < Len(bullets)

\* try_hit: the ids whose bullet overlaps the player (ids count from 0)
try_hit(player_position, bullets, possible_ids) ==
  SelectSeq(possible_ids,
            LAMBDA i : overlaps(bullets[i + 1], player_position))

\* main: the rectangle around the player's circle
player_rect(player_position) ==
  Rect(player_position[1] - PlayerRadius, player_position[2] - PlayerRadius,
       2 * PlayerRadius * Scale, 2 * PlayerRadius * Scale)

\* main: for (i, bullet) in bullets_in_scene.iter().enumerate() { qtree.add }
RECURSIVE InsertAll(_, _, _)
InsertAll(tree, bullets, k) ==
  IF k > Len(bullets) THEN tree
  ELSE InsertAll(add(tree, k - 1, bullets[k].position), bullets, k + 1)

\* tpf * falling_speed of one frame, in grid units
FallSteps == { 0, UniverseSize \div 4 }

Sign(n) == IF n > 0 THEN 1 ELSE IF n < 0 THEN -1 ELSE 0

\* register_force and apply_forces: a bullet that was hit moves away from the
\* player (direction = bullet_pos - player_pos, normalized)
Push(bullet, player_position) ==
  << Sign(bullet.position[1] - player_position[1]) * (UniverseSize \div 4),
     Sign(bullet.position[2] - player_position[2]) * (UniverseSize \div 4) >>

\* the coordinates the model follows a bullet to; a bullet is not moved
\* beyond them
Tracked(position) ==
  /\ position[1] >= -(UniverseSize \div 4)
  /\ position[1] < UniverseSize + UniverseSize \div 4
  /\ position[2] >= -(UniverseSize \div 4)

\* Bullet::update of one bullet: fall, then apply_forces
Updates(bullet, is_hit, player_position) ==
  IF bullet.position[2] >= WINDOW_HEIGHT THEN { bullet }
  ELSE LET push == IF is_hit THEN Push(bullet, player_position)
                   ELSE <<0, 0>>
           moved == { [position |-> <<bullet.position[1] + push[1],
                                      bullet.position[2] + fall + push[2]>>] :
                        fall \in FallSteps }
       IN  IF \E b \in moved : Tracked(b.position)
           THEN { b \in moved : Tracked(b.position) }
           ELSE { bullet }

\* for bullet in &mut bullets_in_scene { bullet.update(tpf) }, from index k
RECURSIVE UpdateAll(_, _, _, _)
UpdateAll(bullets, hit, player_position, k) ==
  IF k > Len(bullets) THEN { <<>> }
  ELSE { <<b>> \o rest :
           b \in Updates(bullets[k], k \in hit, player_position),
           rest \in UpdateAll(bullets, hit, player_position, k + 1) }

Seq0(ps) == [k \in 1..Len(ps) |-> ps[k][1]]

VARIABLES qtree, prev, inserted, preexpanded, qtree2, order2,
          bullets_in_scene, bullet_spawner, pc, panicked, despawned

apiVars == <<prev, inserted, preexpanded>>
orderVars == <<qtree2, order2>>
mainVars == <<bullets_in_scene, bullet_spawner, pc, panicked, despawned>>
vars == <<qtree, apiVars, orderVars, mainVars>>

\* main before its loop
MainStart ==
  /\ bullets_in_scene = <<>>
  /\ bullet_spawner = TRUE
  /\ pc = "spawn"
  /\ panicked = FALSE
  /\ despawned = FALSE

(***************************************************************************)
(* The tree by itself: constructed by new, or by new and make_regions as   *)
(* main does, then a sequence of add calls.                                *)
(***************************************************************************)
Init ==
  /\ \E limit \in Limits :
       \E e \in BOOLEAN :
          /\ preexpanded = e
          /\ qtree = IF e THEN Expanded(limit) ELSE new(qregion, limit)
  /\ prev = qtree
  /\ qtree2 = qtree
  /\ order2 = <<>>
  /\ inserted = <<>>
  /\ MainStart

\* one add call on the root; the caller numbers the points as main does
AddOf(positions) ==
  /\ Len(inserted) < MaxAdds
  /\ \E position \in positions :
       LET id == Len(inserted) IN
         /\ qtree' = add(qtree, id, position)
         /\ prev' = qtree
         /\ inserted' = Append(inserted, <<id, position>>)
  /\ UNCHANGED <<preexpanded, orderVars, mainVars>>

Add == AddOf(Positions)

Next == Add

Spec == Init /\ [][Next]_vars

(***************************************************************************)
(* Two trees of the same construction receiving the same pairs, the second *)
(* in any order.                                                           *)
(***************************************************************************)
OrderPositions == { <<0, 0>>, <<1, 0>>, <<6, 1>>, <<UniverseSize, 3>> }

AddFirst == AddOf(OrderPositions)

AddSecond ==
  /\ \E i \in 1..Len(inserted) :
       /\ \A k \in 1..Len(order2) : order2[k] # i
       /\ qtree2' = add(qtree2, inserted[i][1], inserted[i][2])
       /\ order2' = Append(order2, i)
  /\ UNCHANGED <<qtree, apiVars, mainVars>>

NextOrder == AddFirst \/ AddSecond

SpecOrder == Init /\ [][NextOrder]_vars

(***************************************************************************)
(* The main loop.                                                          *)
(***************************************************************************)
InitMain ==
  /\ qtree = Expanded(QUADTREE_REGION_LIMIT)
  /\ prev = qtree
  /\ qtree2 = qtree
  /\ order2 = <<>>
  /\ inserted = <<>>
  /\ preexpanded = TRUE
  /\ MainStart

\* bullet_spawner.spawn and bullets_in_scene.append
SpawnStep ==
  /\ pc = "spawn" /\ ~panicked
  /\ IF bullet_spawner
     THEN /\ Len(bullets_in_scene) + BULLET_SPAWN_ITER <= MaxBullets
          /\ \E xs \in [1..BULLET_SPAWN_ITER -> SpawnXs] :
               bullets_in_scene' =
                 bullets_in_scene \o
                   [i \in 1..BULLET_SPAWN_ITER |-> Bullet(<<xs[i], 0>>)]
          /\ bullet_spawner' = FALSE
     ELSE UNCHANGED <<bullets_in_scene, bullet_spawner>>
  /\ pc' = "insert"
  /\ UNCHANGED <<qtree, apiVars, orderVars, panicked, despawned>>

\* every bullet is added to the tree under its index
InsertStep ==
  /\ pc = "insert" /\ ~panicked
  /\ qtree' = InsertAll(qtree, bullets_in_scene, 1)
  /\ pc' = "collide"
  /\ UNCHANGED <<apiVars, orderVars, bullets_in_scene, bullet_spawner,
                 panicked, despawned>>

\* the player follows the pointer; query, try_hit, register_force, update
CollideStep ==
  /\ pc = "collide" /\ ~panicked
  /\ \E mouse \in MousePositions :
       LET ids == Seq0(query(qtree, player_rect(mouse))) IN
         IF IndexesInBounds(bullets_in_scene, ids)
         THEN LET hit_ids == try_hit(mouse, bullets_in_scene, ids)
                  hit == { hit_ids[k] + 1 : k \in 1..Len(hit_ids) }
              IN  /\ bullets_in_scene' \in
                       UpdateAll(bullets_in_scene, hit, mouse, 1)
                  /\ panicked' = FALSE
         ELSE /\ panicked' = TRUE
              /\ UNCHANGED bullets_in_scene
  /\ pc' = "frame"
  /\ UNCHANGED <<qtree, apiVars, orderVars, bullet_spawner, despawned>>

\* bullets below the floor are removed
Filtered(bullets) ==
  SelectSeq(bullets, LAMBDA b : b.position[2] < WINDOW_HEIGHT)

\* variant of FrameStep: the tree is not replaced by a fresh one
FrameStep_KeepTree ==
  /\ pc = "frame" /\ ~panicked
  /\ \E elapsed \in BOOLEAN :
       IF elapsed
       THEN /\ Len(Filtered(bullets_in_scene)) + BULLET_SPAWN_ITER
                 <= MaxBullets
            /\ bullet_spawner' = TRUE
            /\ bullets_in_scene' = Filtered(bullets_in_scene)
            /\ despawned' =
                 (despawned
                    \/ Len(Filtered(bullets_in_scene)) < Len(bullets_in_scene))
       ELSE UNCHANGED <<bullet_spawner, bullets_in_scene, despawned>>
  /\ pc' = "spawn"
  /\ UNCHANGED <<qtree, apiVars, orderVars, panicked>>

\* after next_frame: once the spawn delay has elapsed the spawner is reset and
\* the bullets below the floor are removed; the tree is replaced by a fresh
\* pre-expanded one
FrameStep ==
  /\ pc = "frame" /\ ~panicked
  /\ \E elapsed \in BOOLEAN :
       IF elapsed
       THEN /\ Len(Filtered(bullets_in_scene)) + BULLET_SPAWN_ITER
                 <= MaxBullets
            /\ bullet_spawner' = TRUE
            /\ bullets_in_scene' = Filtered(bullets_in_scene)
            /\ despawned' =
                 (despawned
                    \/ Len(Filtered(bullets_in_scene)) < Len(bullets_in_scene))
       ELSE UNCHANGED <<bullet_spawner, bullets_in_scene, despawned>>
  /\ qtree' = Expanded(QUADTREE_REGION_LIMIT)
  /\ pc' = "spawn"
  /\ UNCHANGED <<apiVars, orderVars, panicked>>

NextMain == SpawnStep \/ InsertStep \/ CollideStep \/ FrameStep

SpecMain == InitMain /\ [][NextMain]_vars

LastPosition == inserted[Len(inserted)][2]

\* the tree as it was constructed
InitialTree ==
  IF preexpanded THEN Expanded(qtree.limit) ELSE new(qregion, qtree.limit)

\* splits performed since construction
NumSplits == NumInternal(qtree) - (IF preexpanded THEN 1 ELSE 0)

\* how many inserted points have the coordinates pos
InsertedAt(pos) ==
  Cardinality({ i \in 1..Len(inserted) : inserted[i][2] = pos })

(***************************************************************************)
(* C1: on a pre-expanded root, every inserted point that lies inside the   *)
(* universe and inside the query rectangle Q is among the ids of query(Q). *)
(***************************************************************************)
C1_NoFalseNegatives ==
  preexpanded =>
    \A Q \in QueryRects : \A i \in 1..Len(inserted) :
      (InUniverse(inserted[i][2]) /\ contains(Q, inserted[i][2]))
        => inserted[i][1] \in Ids(query(qtree, Q))

(***************************************************************************)
(* C6: every inserted point inside the universe is held by exactly one     *)
(* leaf, and the tree stores as many points as there were in-universe      *)
(* insertions.                                                             *)
(***************************************************************************)
C6_NoLossNoDuplication ==
  /\ \A i \in 1..Len(inserted) :
       InUniverse(inserted[i][2]) => HeldByLeaves(qtree, inserted[i]) = 1
  /\ Stored(qtree) =
       Cardinality({ i \in 1..Len(inserted) : InUniverse(inserted[i][2]) })

StartLeaves == IF preexpanded THEN { <<1>>, <<2>>, <<3>>, <<4>> } ELSE { <<>> }

\* the inserted positions all lie in quadrant q of the initial leaf at path
InOneQuadrant(path, q) ==
  LET leaf == NodeAt(InitialTree, path) IN
    \A i \in 1..Len(inserted) :
      /\ contains(leaf.region, inserted[i][2])
      /\ contains(make_regions(leaf)[q].region, inserted[i][2])

ThreeInQuadrant(path, q) ==
  /\ qtree.limit = 2
  /\ Len(inserted) = 3
  /\ InOneQuadrant(path, q)

SameCoordinates == \A i, j \in 1..Len(inserted) : inserted[i][2] = inserted[j][2]

C4_OutOfBoundsNoOp ==
  (Len(inserted) > 0 /\ ~InUniverse(LastPosition)) =>
    /\ qtree = prev
    /\ \A Q \in QueryRects : query(qtree, Q) = query(prev, Q)

C4_Witness ==
  /\ Len(inserted) = 3
  /\ ~InUniverse(LastPosition)
  /\ Stored(qtree) = 2
  /\ qtree = prev

(***************************************************************************)
(* C5: every node has 0 or 4 children, a node with children holds no       *)
(* points, and a leaf holds at most limit points.                          *)
(***************************************************************************)
RECURSIVE ShapeOK(_)
ShapeOK(node) ==
  /\ Len(node.regions) \in {0, 4}
  /\ Len(node.regions) > 0 => node.points = <<>>
  /\ Len(node.regions) = 0 => Len(node.points) <= node.limit
  /\ \A i \in 1..Len(node.regions) : ShapeOK(node.regions[i])

C5_NodeShape == ShapeOK(qtree)

C5_Witness ==
  /\ NumSplits >= 2
  /\ \E path \in Reached(qtree, LastPosition, <<>>) :
       Len(NodeAt(qtree, path).points) = qtree.limit

(***************************************************************************)
(* C7: query(Q) is the concatenation, in child order, of the full point    *)
(* lists of the leaves below the node whose region overlaps Q, and of no   *)
(* other leaf; the points are not checked against Q.                       *)
(***************************************************************************)
\* the points of every leaf below node whose own region overlaps Q
RECURSIVE LeavesOverlapping(_, _, _)
LeavesOverlapping(node, Q, k) ==
  IF k > Len(node.regions) THEN <<>>
  ELSE LET child == node.regions[k]
           got == IF Len(child.regions) > 0
                  THEN LeavesOverlapping(child, Q, 1)
                  ELSE IF intersect(child.region, Q) THEN child.points
                  ELSE <<>>
       IN  got \o LeavesOverlapping(node, Q, k + 1)

FullOfSame(node, position) ==
  /\ Len(node.points) = node.limit
  /\ \A i \in 1..Len(node.points) : node.points[i][2] = position

CoincidentPaths ==
  IF Len(inserted) = 0 THEN {}
  ELSE { path \in Reached(prev, LastPosition, <<>>) :
           FullOfSame(NodeAt(prev, path), LastPosition) }

\* below node every level has split and, of its four children, only the one
\* whose region contains position has split again; no leaf holds a point
RECURSIVE SplitChain(_, _)
SplitChain(node, position) ==
  /\ Len(node.regions) = 4
  /\ node.points = <<>>
  /\ LET inside == { i \in 1..4 : contains(node.regions[i].region, position) }
     IN  /\ Cardinality(inside) <= 1
         /\ \A i \in 1..4 :
              IF i \in inside THEN SplitChain(node.regions[i], position)
              ELSE EmptyLeaf(node.regions[i])

(***************************************************************************)
(* C9 as stated: an add of the coordinates of the limit points of a full   *)
(* leaf never completes.                                                   *)
(***************************************************************************)
C9_NeverCompletes == CoincidentPaths = {}

(***************************************************************************)
(* C9 amended: no maximum depth is enforced, and such an add splits the    *)
(* leaf and then, level after level, the single child that received all    *)
(* limit points, until the halved region is too small to contain the       *)
(* coordinates; there the points are dropped and the add completes with    *)
(* none of the limit + 1 points stored anywhere in the tree.               *)
(***************************************************************************)
C9_SplitsUntilDropped ==
  \A path \in CoincidentPaths :
    /\ SplitChain(NodeAt(qtree, path), LastPosition)
    /\ NumInternal(NodeAt(qtree, path)) >= GridBits - Len(path) + 1
    /\ StoredAt(qtree, LastPosition) = 0

C9_Witness ==
  /\ CoincidentPaths # {}
  /\ NumSplits >= 2
  /\ StoredAt(prev, LastPosition) = qtree.limit
  /\ StoredAt(qtree, LastPosition) = 0

(***************************************************************************)
(* C8: when two trees of the same universe and capacity have received the  *)
(* same (id, position) pairs, in whatever orders, every query rectangle    *)
(* gets the same set of ids from both.                                     *)
(***************************************************************************)
C8_OrderIndependence ==
  Len(order2) = Len(inserted) =>
    \A Q \in QueryRects : Ids(query(qtree, Q)) = Ids(query(qtree2, Q))

C8_Witness ==
  /\ Len(inserted) = 3
  /\ order2 = <<3, 1, 2>>
  /\ qtree # qtree2
  /\ NumInternal(qtree) >= 2
  /\ Cardinality(Ids(query(qtree, qregion))) >= 2

(***************************************************************************)
(* C10: when main queries the tree, the tree is a fresh pre-expanded tree  *)
(* to which exactly the current bullets were added under their indices, so *)
(* every id a query returns indexes the bullet collection and try_hit      *)
(* never indexes out of bounds.                                            *)
(***************************************************************************)
RECURSIVE StoredIds(_)
StoredIds(node) ==
  Ids(node.points)
    \cup UNION { StoredIds(node.regions[i]) : i \in 1..Len(node.regions) }

C10_IdsIndexBullets ==
  /\ ~panicked
  /\ pc = "collide" =>
       /\ qtree = InsertAll(Expanded(QUADTREE_REGION_LIMIT),
                            bullets_in_scene, 1)
       /\ \A id \in StoredIds(qtree) : id < Len(bullets_in_scene)
       /\ \A mouse \in MousePositions :
            IndexesInBounds(bullets_in_scene,
                            Seq0(query(qtree, player_rect(mouse))))

\* main is about to query a tree that splits have deepened, after bullets
\* were removed from the scene, and the query returns an id
C10_Witness ==
  /\ pc = "collide"
  /\ despawned
  /\ ~panicked
  /\ NumInternal(qtree) >= 2
  /\ \E mouse \in MousePositions :
       query(qtree, player_rect(mouse)) # <<>>

=============================================================================
